---- MODULE Spec2Model ----
(***************************************************************************)
(* The Sciro v0.3 detection engine (sciro.js): playback signals are        *)
(* classified into rewind / pause / pause_duration events, kept in a       *)
(* time window, scored into a confidence and a learner state, and emitted  *)
(* to a callback, a webhook and a UI plugin.                               *)
(*                                                                         *)
(* Units: wall-clock times are milliseconds; playback positions, rewind    *)
(* deltas and the *Seconds rules are deciseconds (25 = 2.5 s), except      *)
(* pauseNearRewindSeconds, which is seconds.  Positions are multiples of   *)
(* 0.5 s, so position arithmetic is exact in JS Numbers; the confidence    *)
(* is computed in IEEE-754 binary64, as the engine computes it.            *)
(***************************************************************************)
EXTENDS Integers, Sequences, FiniteSets, TLC

(***************************************************************************)
(* JS Number arithmetic: non-negative binary64 values m * 2^e, with m a    *)
(* 53-bit integer held as little-endian limbs, rounded to nearest-even.    *)
(***************************************************************************)
LimbBase == 16384
LimbBits == 14
MantBits == 53

RECURSIVE Pow2(_)
Pow2(k) == IF k = 0 THEN 1 ELSE 2 * Pow2(k - 1)

RECURSIVE BNorm(_)
BNorm(a) == IF a = <<>> THEN <<>>
            ELSE IF a[Len(a)] = 0 THEN BNorm(SubSeq(a, 1, Len(a) - 1)) ELSE a

RECURSIVE BAddC(_, _, _)
BAddC(a, b, c) ==
  IF a = <<>> /\ b = <<>> THEN (IF c = 0 THEN <<>> ELSE <<c>>)
  ELSE LET s == (IF a = <<>> THEN 0 ELSE Head(a)) + (IF b = <<>> THEN 0 ELSE Head(b)) + c
       IN <<s % LimbBase>> \o BAddC(IF a = <<>> THEN <<>> ELSE Tail(a),
                                    IF b = <<>> THEN <<>> ELSE Tail(b), s \div LimbBase)
BAdd(a, b) == BNorm(BAddC(a, b, 0))

RECURSIVE BMulSmallC(_, _, _)
BMulSmallC(a, s, c) ==
  IF a = <<>> THEN (IF c = 0 THEN <<>> ELSE <<c>>)
  ELSE LET p == Head(a) * s + c
       IN <<p % LimbBase>> \o BMulSmallC(Tail(a), s, p \div LimbBase)
BMulSmall(a, s) == BNorm(BMulSmallC(a, s, 0))

RECURSIVE BMul(_, _)
BMul(a, b) == IF b = <<>> \/ a = <<>> THEN <<>>
              ELSE BAdd(BMulSmall(a, Head(b)), BNorm(<<0>> \o BMul(a, Tail(b))))

RECURSIVE BDivRec(_, _)
BDivRec(a, d) ==
  IF a = <<>> THEN [q |-> <<>>, r |-> 0]
  ELSE LET hi == BDivRec(Tail(a), d)
           cur == hi.r * LimbBase + Head(a)
       IN [q |-> <<cur \div d>> \o hi.q, r |-> cur % d]
BDivNorm(qr) == [q |-> BNorm(qr.q), r |-> qr.r]
BDivSmall(a, d) == BDivNorm(BDivRec(a, d))

RECURSIVE Zeros(_)
Zeros(n) == IF n = 0 THEN <<>> ELSE <<0>> \o Zeros(n - 1)

BShl(a, k) == IF a = <<>> THEN <<>>
              ELSE BMulSmall(Zeros(k \div LimbBits) \o a, Pow2(k % LimbBits))
BShr(a, k) == LET dropped == k \div LimbBits
              IN IF dropped >= Len(a) THEN <<>>
                 ELSE BDivSmall(SubSeq(a, dropped + 1, Len(a)), Pow2(k % LimbBits)).q

RECURSIVE IntBitLen(_)
IntBitLen(n) == IF n = 0 THEN 0 ELSE 1 + IntBitLen(n \div 2)
BBitLen(a) == IF a = <<>> THEN 0 ELSE LimbBits * (Len(a) - 1) + IntBitLen(a[Len(a)])

RECURSIVE BCmp(_, _)
BCmp(a, b) ==
  IF Len(a) # Len(b) THEN (IF Len(a) < Len(b) THEN -1 ELSE 1)
  ELSE IF a = <<>> THEN 0
  ELSE IF a[Len(a)] # b[Len(b)] THEN (IF a[Len(a)] < b[Len(b)] THEN -1 ELSE 1)
  ELSE BCmp(SubSeq(a, 1, Len(a) - 1), SubSeq(b, 1, Len(b) - 1))

RECURSIVE BFromInt(_)
BFromInt(n) == IF n = 0 THEN <<>> ELSE <<n % LimbBase>> \o BFromInt(n \div LimbBase)
RECURSIVE BToInt(_)
BToInt(a) == IF a = <<>> THEN 0 ELSE Head(a) + LimbBase * BToInt(Tail(a))
BOdd(a) == a # <<>> /\ Head(a) % 2 = 1

FZero == [m |-> <<>>, e |-> 0]
\* the double nearest to n * 2^e (ties to even); sticky: a nonzero part below n was dropped
FRoundPack(r, e) ==
  IF BBitLen(r) > MantBits THEN [m |-> BShr(r, 1), e |-> e + 1] ELSE [m |-> r, e |-> e]
FRoundEven(q2, q, inexact, e) ==
  FRoundPack(IF BOdd(q2) /\ (inexact \/ BOdd(q)) THEN BAdd(q, <<1>>) ELSE q, e)
FRoundCut(n, q2, s, e, sticky) ==
  FRoundEven(q2, BShr(q2, 1), sticky \/ BCmp(BShl(q2, s - 1), n) # 0, e + s)
FRoundLen(n, len, e, sticky) ==
  IF len = 0 THEN FZero
  ELSE IF len <= MantBits THEN [m |-> BShl(n, MantBits - len), e |-> e - (MantBits - len)]
  ELSE FRoundCut(n, BShr(n, len - MantBits - 1), len - MantBits, e, sticky)
FRound(n, e, sticky) == FRoundLen(n, BBitLen(n), e, sticky)

FMul(a, b) == FRound(BMul(a.m, b.m), a.e + b.e, FALSE)
FAdd(a, b) ==
  IF a.m = <<>> THEN b ELSE IF b.m = <<>> THEN a
  ELSE LET lo == IF a.e < b.e THEN a.e ELSE b.e
       IN FRound(BAdd(BShl(a.m, a.e - lo), BShl(b.m, b.e - lo)), lo, FALSE)
GuardBits == 84
FRatOf(qr) == FRound(qr.q, 0 - GuardBits, qr.r # 0)
FRat(p, q) == FRatOf(BDivSmall(BShl(BFromInt(p), GuardBits), q))
FCmp(a, b) ==
  IF a.m = <<>> THEN (IF b.m = <<>> THEN 0 ELSE -1)
  ELSE IF b.m = <<>> THEN 1
  ELSE IF a.e # b.e THEN (IF a.e < b.e THEN -1 ELSE 1)
  ELSE BCmp(a.m, b.m)
FGe(a, b) == FCmp(a, b) >= 0
FMin(a, b) == IF FCmp(a, b) <= 0 THEN a ELSE b
FMax(a, b) == IF FCmp(a, b) >= 0 THEN a ELSE b
\* Math.round: floor(a + 1/2), exactly
MathRound(a) ==
  IF a.m = <<>> THEN 0
  ELSE IF a.e >= 0 THEN BToInt(BShl(a.m, a.e))
  ELSE BToInt(BShr(BAdd(a.m, BShl(<<1>>, (0 - a.e) - 1)), 0 - a.e))


(***************************************************************************)
(* Bounds of the model.                                                    *)
(***************************************************************************)
StartTime == 200000   \* Date.now() of the first step, on a scale where 0 is long past
MaxEvents == 3        \* no event is tracked when the window would hold more
MaxInits == 2         \* init is called at most this many times

Videos == {"v1", "v2"}
NoVideo == "none"
Null == -1
\* playback positions (deciseconds): 5.0 s and 30.0 s
Positions == {50, 300}
\* video.duration, in units of 1/32 s: 0 stands for 0 and NaN (not yet known),
\* InfiniteDuration for Infinity (a live stream); 300 s gives a 30 s window
DurationUnit == 32
InfiniteDuration == -2
Durations == {0, 300 * DurationUnit}
\* durations around both ends of the clamp, and some whose 8 % falls on half a
\* millisecond
WindowDurations ==
  {0, InfiniteDuration, 1, 5 * DurationUnit, 300 * DurationUnit, 375 * DurationUnit - 1,
   375 * DurationUnit, 375 * DurationUnit + 1, 400 * DurationUnit + 5,
   1000 * DurationUnit + 3, 1500 * DurationUnit - 1, 1500 * DurationUnit,
   1500 * DurationUnit + 1, 7200 * DurationUnit}
\* rules.windowMs as configured: Null (adaptive) or a number
WindowSettings == {Null, 0, 8000, 45000}
\* the clock readings at which steps happen, as offsets from StartTime
Offsets == {0, 250, 8000, 30250}
OffsetsTwo == {0, 250}
Readings(offsets) == {StartTime + o : o \in offsets}

VARIABLES
  now,                \* Date.now()
  duration,           \* video.duration of each media element
  attached,           \* media elements that carry the engine's listeners
  pauseStartedAt,     \* the pauseStartedAt closure variable of each attachment
  config,
  events,
  lastStableTime,
  seekFrom,
  lastSeekRecordedAt,
  lastInsightAt,
  lastEmittedState,
  lastEmittedAt,
  uiRootEl,           \* TRUE once the UI container has been looked up or created
  uiHtml,             \* the insight mounted in the container, NoHtml when empty
  uiDismissTimer,     \* handle of the last armed auto-dismiss timer, Null when none
  timers,             \* pending setTimeout callbacks: [id, due]
  fetches,            \* POST requests of sendInsightToApi awaiting their outcome
  inits,              \* number of init calls so far
  hist,               \* history: the latest evaluation that passed the cooldown gate, and
                      \*   the latest emission in the current run of same-state evaluations
  obs,                \* history: what the latest step did
  args,               \* arguments and result of a pure function under check
  result,
  heap,               \* the objects of a SciroClient and of its caller, by reference
  client              \* this.config of the client (a reference), the references
                      \*   getConfig has returned, and history: the configuration as
                      \*   constructed and the latest call

vars == <<now, duration, attached, pauseStartedAt, config, events,
          lastStableTime, seekFrom, lastSeekRecordedAt, lastInsightAt,
          lastEmittedState, lastEmittedAt, uiRootEl, uiHtml, uiDismissTimer,
          timers, fetches, inits, hist, obs, args, result, heap, client>>

engineVars == <<events, lastStableTime, seekFrom, lastSeekRecordedAt, lastInsightAt,
                lastEmittedState, lastEmittedAt>>
uiVars == <<uiRootEl, uiHtml, uiDismissTimer, timers>>
envVars == <<now, duration>>
pureVars == <<args, result, heap, client>>

DEFAULTS == [
  windowMs |-> Null,
  minRewindSeconds |-> 25,
  seekDebounceMs |-> 500,
  cooldownMs |-> 8000,
  minRewinds |-> 2,
  segmentSizeSeconds |-> 200,
  pauseNearRewindSeconds |-> 6,
  minPauseSeconds |-> 10,
  emitOnlyOnStateChange |-> TRUE,
  emitStateRefreshMs |-> 30000,
  weights |-> [rewinds |-> 45, sameSegment |-> 35, pauseNearRewind |-> 20]]

\* { ...DEFAULTS, ...(config.rules || {}) }
MergeRules(defaults, userRules) ==
  [k \in (DOMAIN defaults) \cup (DOMAIN userRules) |->
     IF k \in DOMAIN userRules THEN userRules[k] ELSE defaults[k]]

\* the configurations callers pass to init: the rules object, whether onInsight /
\* apiEndpoint / ui are given, and of the ui plugin its autoDismissMs, whether it has
\* an onAction, and the markup its render returns: "flat" is one element marked
\* data-sciro="dismiss", "nested" is that element inside one marked data-sciro="open"
UserConfigs == {
  [rules |-> <<>>,
   onInsight |-> TRUE, apiEndpoint |-> TRUE, ui |-> FALSE, autoDismissMs |-> 15000,
   onAction |-> FALSE, markup |-> "flat"],
  [rules |-> [windowMs |-> 8000, cooldownMs |-> 200, emitStateRefreshMs |-> 8000],
   onInsight |-> FALSE, apiEndpoint |-> FALSE, ui |-> FALSE, autoDismissMs |-> 15000,
   onAction |-> FALSE, markup |-> "flat"],
  [rules |-> [minRewinds |-> 1, emitOnlyOnStateChange |-> FALSE, segmentSizeSeconds |-> 20,
              weights |-> [rewinds |-> 200, sameSegment |-> 35, pauseNearRewind |-> 20]],
   onInsight |-> TRUE, apiEndpoint |-> FALSE, ui |-> FALSE, autoDismissMs |-> 0,
   onAction |-> FALSE, markup |-> "flat"],
  [rules |-> <<>>,
   onInsight |-> TRUE, apiEndpoint |-> FALSE, ui |-> TRUE, autoDismissMs |-> 15000,
   onAction |-> TRUE, markup |-> "nested"] }

(***************************************************************************)
(* Helpers of the engine.                                                  *)
(***************************************************************************)
F0 == FZero
F1 == FRat(1, 1)
F025 == FRat(25, 100)
F075 == FRat(75, 100)

\* clamp on Numbers: Math.min(b, Math.max(a, n))
clamp(n, a, b) == FMin(b, FMax(a, n))

\* faulty variant: a half is rounded down
round2HalfDown(n) ==
  IF FCmp(FMul(n, FRat(100, 1)), FRat(2 * MathRound(FMul(n, FRat(100, 1))) - 1, 2)) = 0
  THEN MathRound(FMul(n, FRat(100, 1))) - 1
  ELSE MathRound(FMul(n, FRat(100, 1)))

\* Math.round((Number(n) || 0) * 100) / 100, as the integer number of hundredths
round2(n) == MathRound(FMul(n, FRat(100, 1)))

\* faulty variant: the window is not clamped from below
adaptiveWindowMsNoFloor(d) ==
  LET ms == MathRound(FMul(FMul(FRat(d, DurationUnit), FRat(8, 100)), FRat(1000, 1)))
  IN IF ms > 120000 THEN 120000 ELSE ms

\* clamp(Math.round(duration * 0.08 * 1000), 30000, 120000)
adaptiveWindowMs(d) ==
  LET ms == MathRound(FMul(FMul(FRat(d, DurationUnit), FRat(8, 100)), FRat(1000, 1)))
  IN IF ms < 30000 THEN 30000 ELSE IF ms > 120000 THEN 120000 ELSE ms

adaptiveWindowMemo ==
  [d \in (Durations \cup WindowDurations) \ {0, InfiniteDuration} |-> adaptiveWindowMs(d)]

\* the window length in force for configuration cfg when its video reports duration d
getWindowMsOf(cfg, d) ==
  IF cfg.rules.windowMs # Null THEN cfg.rules.windowMs
  ELSE IF d = 0 \/ d = InfiniteDuration THEN 60000
  ELSE adaptiveWindowMemo[d]

\* Number(video?.duration || 0) of the configured element
configuredDuration == IF config.videoElement = NoVideo THEN 0 ELSE duration[config.videoElement]

getWindowMs == getWindowMsOf(config, configuredDuration)

\* faulty variant: the window length is the one computed before the duration was known
cleanOldEventsCached(evs) ==
  LET cutoff == now - getWindowMsOf(config, 0)
  IN SelectSeq(evs, LAMBDA e : e.timestamp > cutoff)

\* faulty variant: only rewinds are evicted, older pauses stay in the window
cleanOldEventsRewindsOnly(evs) ==
  LET cutoff == now - getWindowMs
  IN SelectSeq(evs, LAMBDA e : e.timestamp > cutoff \/ e.type # "rewind")

cleanOldEvents(evs) ==
  LET cutoff == now - getWindowMs
  IN SelectSeq(evs, LAMBDA e : e.timestamp > cutoff)

\* faulty variant: a segment size below five seconds is used as configured
segmentForUnclamped(timeSeconds, segmentSizeSeconds) ==
  timeSeconds \div (IF segmentSizeSeconds = 0 THEN 200 ELSE segmentSizeSeconds)

segmentFor(timeSeconds, segmentSizeSeconds) ==
  LET wanted == IF segmentSizeSeconds = 0 THEN 200 ELSE segmentSizeSeconds
      size == IF wanted < 50 THEN 50 ELSE wanted
  IN timeSeconds \div size

\* countBy(rewindEvents, e => String(e.meta.segment))
countBy(arr) ==
  [k \in {arr[i].meta.segment : i \in DOMAIN arr} |->
     Cardinality({i \in DOMAIN arr : arr[i].meta.segment = k})]

MaxOf(S) == CHOOSE x \in S : \A y \in S : y <= x

\* faulty variant: among the segments with the largest count the highest is taken
dominantSegmentOfLast(segmentCounts) ==
  LET top == MaxOf({segmentCounts[k] : k \in DOMAIN segmentCounts})
  IN MaxOf({k \in DOMAIN segmentCounts : segmentCounts[k] = top})

\* Object.entries lists integer keys in ascending order and the sort is stable:
\* the first entry with the largest count is the lowest such segment
dominantSegmentOf(segmentCounts) ==
  LET top == MaxOf({segmentCounts[k] : k \in DOMAIN segmentCounts})
  IN CHOOSE k \in DOMAIN segmentCounts :
       /\ segmentCounts[k] = top
       /\ \A j \in DOMAIN segmentCounts : segmentCounts[j] = top => k <= j

\* faulty variant: pauses before the rewind count as well
didPauseNearOrBefore(evs, rewindTimestamp, withinSeconds) ==
  \E i \in DOMAIN evs :
    /\ evs[i].type \in {"pause", "pause_duration"}
    /\ evs[i].timestamp <= rewindTimestamp + withinSeconds * 1000

didPauseNear(evs, rewindTimestamp, withinSeconds) ==
  LET withinMs == withinSeconds * 1000
  IN \E i \in DOMAIN evs :
       /\ evs[i].type \in {"pause", "pause_duration"}
       /\ evs[i].timestamp >= rewindTimestamp
       /\ evs[i].timestamp <= rewindTimestamp + withinMs

\* faulty variant: the pause score is inverted
computeConfidencePauseInverted(rewinds, maxSegmentRewinds, pauseNear, rules) ==
  LET rewindScore == clamp(FRat(rewinds - rules.minRewinds, 4), F0, F1)
      segmentScore == clamp(FRat(maxSegmentRewinds - 1, 3), F0, F1)
      pauseScore == IF pauseNear THEN F0 ELSE F1
      w == rules.weights
      blended == FAdd(FAdd(FMul(rewindScore, FRat(w.rewinds, 100)),
                           FMul(segmentScore, FRat(w.sameSegment, 100))),
                      FMul(pauseScore, FRat(w.pauseNearRewind, 100)))
  IN FAdd(FRat(55, 100), FMul(blended, FRat(4, 10)))

\* lines 349-351: the three signals normalised into 0..1
rewindScoreOf(rewinds, rules) == clamp(FRat(rewinds - rules.minRewinds, 4), F0, F1)
segmentScoreOf(maxSegmentRewinds) == clamp(FRat(maxSegmentRewinds - 1, 3), F0, F1)
pauseScoreOf(pauseNear) == IF pauseNear THEN F1 ELSE F0

computeConfidence(rewinds, maxSegmentRewinds, pauseNear, rules) ==
  LET rewindScore == rewindScoreOf(rewinds, rules)
      segmentScore == segmentScoreOf(maxSegmentRewinds)
      pauseScore == pauseScoreOf(pauseNear)
      w == rules.weights
      blended == FAdd(FAdd(FMul(rewindScore, FRat(w.rewinds, 100)),
                           FMul(segmentScore, FRat(w.sameSegment, 100))),
                      FMul(pauseScore, FRat(w.pauseNearRewind, 100)))
  IN FAdd(FRat(55, 100), FMul(blended, FRat(4, 10)))

\* the rules objects init can produce, and computeConfidence / round2 on the
\* arguments evaluateState can pass under them
RulesInUse == {MergeRules(DEFAULTS, u.rules) : u \in UserConfigs}
confidenceMemo ==
  [r \in 1..(MaxEvents + 1), m \in 1..(MaxEvents + 1), p \in BOOLEAN, rules \in RulesInUse |->
     IF r < rules.minRewinds \/ m > r THEN F0 ELSE computeConfidence(r, m, p, rules)]
round2Memo ==
  [c \in {confidenceMemo[x] : x \in DOMAIN confidenceMemo} \cup {F025} |-> round2(c)]

buildInsightPayload(state, confidence, rewinds, rewindEvents, extra) ==
  [state |-> state,
   confidence |-> round2Memo[confidence],
   rewinds |-> rewinds,
   rewinds_in_window |-> [i \in DOMAIN rewindEvents |->
                            [segment |-> rewindEvents[i].meta.segment,
                             at |-> rewindEvents[i].timestamp]],
   extra |-> extra,
   window_ms |-> getWindowMs]

NoExtra == [dominant_segment |-> Null, max_segment_rewinds |-> 0, pause_near_rewind |-> FALSE]

\* line 131: the rewind events of the window
rewindEventsOf(evs) == SelectSeq(evs, LAMBDA e : e.type = "rewind")

\* faulty variant: the threshold is fixed at one rewind, whatever minRewinds is
belowMinRewindsFixed(rewinds) == rewinds < 1

\* line 135: not enough signal
belowMinRewinds(rewinds) == rewinds < config.rules.minRewinds

\* evaluateState past the cooldown gate: the raw confidence and the payload built
\* from the window evs
\* lines 150-170: the state from the confidence, and the payload
insightOf(confidence, rewindEvents, extra) ==
  [confidence |-> confidence,
   insight |-> buildInsightPayload(IF FGe(confidence, F075) THEN "confused" ELSE "struggling",
                                   confidence, Len(rewindEvents), rewindEvents, extra)]

\* lines 150-156: the confidence from the three signals
signalsOf(rewindEvents, dominantSegment, maxSegmentRewinds, pauseNear) ==
  insightOf(confidenceMemo[Len(rewindEvents), maxSegmentRewinds, pauseNear, config.rules],
            rewindEvents,
            [dominant_segment |-> dominantSegment,
             max_segment_rewinds |-> maxSegmentRewinds,
             pause_near_rewind |-> pauseNear])

\* lines 142-148: the signals from the segment counts and the last rewind
segmentsOf(evs, rewindEvents, segmentCounts) ==
  signalsOf(rewindEvents,
            dominantSegmentOf(segmentCounts),
            MaxOf({segmentCounts[k] : k \in DOMAIN segmentCounts}),
            didPauseNear(evs, rewindEvents[Len(rewindEvents)].timestamp,
                         config.rules.pauseNearRewindSeconds))

evaluationOf(evs, rewindEvents) ==
  IF belowMinRewinds(Len(rewindEvents))
  THEN [confidence |-> F025,
        insight |-> buildInsightPayload("ok", F025, Len(rewindEvents), rewindEvents, NoExtra)]
  ELSE segmentsOf(evs, rewindEvents, countBy(rewindEvents))

\* what evaluateState computes past the cooldown gate: [confidence, insight]
evaluation(evs) == evaluationOf(evs, rewindEventsOf(evs))

(***************************************************************************)
(* Emission: maybeEmit and the three deliveries.  cb is what the onInsight *)
(* callback does when called ("returns" or "throws"), rn what ui.render    *)
(* does ("html", "empty" or "throws").                                     *)
(***************************************************************************)
\* the container's content: the insight whose render produced it (its state and
\* the time it was built), and what the click listeners wired to it close over
NoHtml == [state |-> "", at |-> 0, onAction |-> FALSE, markup |-> ""]
mountedHtml(insight) ==
  [state |-> insight.state, at |-> now, onAction |-> config.onAction, markup |-> config.markup]
NoInsight == [state |-> "", at |-> 0]

\* line 129: the cooldown gate is closed
cooldownActive == now - lastInsightAt < config.rules.cooldownMs

\* faulty variant: the refresh interval is the cooldown
emitDecisionByCooldown(insight) ==
  LET stateChanged == insight.state # lastEmittedState
      refreshAllowed == (now - lastEmittedAt) >= config.rules.cooldownMs
  IN ~(config.rules.emitOnlyOnStateChange /\ ~stateChanged /\ ~refreshAllowed)

\* maybeEmit's gate: FALSE when the insight is suppressed
emitDecision(insight) ==
  LET stateChanged == insight.state # lastEmittedState
      refreshAllowed == (now - lastEmittedAt) >= config.rules.emitStateRefreshMs
  IN ~(config.rules.emitOnlyOnStateChange /\ ~stateChanged /\ ~refreshAllowed)

\* config.onInsight?.(insight): the call raises out of emitInsight
emitInsightThrows(cb) == config.onInsight /\ cb = "throws"

\* ui.render is reached and raises out of maybeRenderUI
renderThrows(rn) == config.ui /\ rn = "throws"

\* what the integrator's code can do when an emission of insight reaches it; a
\* callback or plugin that is absent or not reached has the one outcome of no effect
CallbackOutcomes(insight) ==
  IF emitDecision(insight) /\ config.onInsight THEN {"returns", "throws"} ELSE {"returns"}
RenderOutcomes(insight, cb) ==
  IF emitDecision(insight) /\ ~emitInsightThrows(cb) /\ config.ui
  THEN {"html", "empty", "throws"} ELSE {"empty"}

FreshTimerId == CHOOSE n \in 1..(Cardinality(timers) + 2) :
                  n # uiDismissTimer /\ \A t \in timers : t.id # n

\* faulty variant: a new timer is armed without cancelling the one armed before
maybeRenderUIKeepsTimer(insight, rn) ==
  IF ~config.ui THEN UNCHANGED uiVars
  ELSE /\ uiRootEl' = TRUE
       /\ IF rn # "html"
          THEN UNCHANGED <<uiHtml, uiDismissTimer, timers>>
          ELSE /\ uiHtml' = mountedHtml(insight)
               /\ IF config.autoDismissMs > 0
                  THEN /\ timers' = timers
                                      \cup {[id |-> FreshTimerId, due |-> now + config.autoDismissMs]}
                       /\ uiDismissTimer' = FreshTimerId
                  ELSE UNCHANGED <<uiDismissTimer, timers>>

\* faulty variant: an empty render empties the container and cancels the timer
maybeRenderUIClearsOnEmpty(insight, rn) ==
  IF ~config.ui THEN UNCHANGED uiVars
  ELSE /\ uiRootEl' = TRUE
       /\ IF rn = "throws"
          THEN UNCHANGED <<uiHtml, uiDismissTimer, timers>>
          ELSE IF rn = "empty"
          THEN /\ uiHtml' = NoHtml
               /\ timers' = {t \in timers : t.id # uiDismissTimer}
               /\ uiDismissTimer' = Null
          ELSE /\ uiHtml' = mountedHtml(insight)
               /\ IF config.autoDismissMs > 0
                  THEN /\ timers' = {t \in timers : t.id # uiDismissTimer}
                                      \cup {[id |-> FreshTimerId, due |-> now + config.autoDismissMs]}
                       /\ uiDismissTimer' = FreshTimerId
                  ELSE UNCHANGED <<uiDismissTimer, timers>>

maybeRenderUI(insight, rn) ==
  IF ~config.ui THEN UNCHANGED uiVars
  ELSE /\ uiRootEl' = TRUE
       /\ IF rn # "html"
          THEN UNCHANGED <<uiHtml, uiDismissTimer, timers>>
          ELSE /\ uiHtml' = mountedHtml(insight)
               /\ IF config.autoDismissMs > 0
                  THEN /\ timers' = {t \in timers : t.id # uiDismissTimer}
                                      \cup {[id |-> FreshTimerId, due |-> now + config.autoDismissMs]}
                       /\ uiDismissTimer' = FreshTimerId
                  ELSE UNCHANGED <<uiDismissTimer, timers>>

\* the synchronous part of sendInsightToApi: fetch is called when an endpoint is set
sendInsightToApi(insight) ==
  fetches' = IF config.apiEndpoint THEN fetches + 1 ELSE fetches

maybeEmit(insight, cb, rn) ==
  IF ~emitDecision(insight)
  THEN UNCHANGED <<lastEmittedState, lastEmittedAt, uiVars, fetches>>
  ELSE /\ lastEmittedState' = insight.state
       /\ lastEmittedAt' = now
       /\ IF emitInsightThrows(cb) THEN UNCHANGED <<uiVars, fetches>>
          ELSE sendInsightToApi(insight) /\ maybeRenderUI(insight, rn)

\* an exception leaves evaluateState before lastInsightAt is assigned
evaluationThrows(insight, cb, rn) ==
  emitDecision(insight) /\ (emitInsightThrows(cb) \/ renderThrows(rn))

\* the emission of insight reaches ui.render and its markup is mounted
mounts(insight, cb, rn) ==
  emitDecision(insight) /\ ~emitInsightThrows(cb) /\ config.ui /\ rn = "html"

\* history: the evaluation that passes the gate now yields state and emits or not,
\* and its render mounts content or not
histAfter(state, emitted, mounted) ==
  [lastEvalAt |-> now,
   runState |-> state,
   runEmitAt |-> IF emitted THEN now
                 ELSE IF state = hist.runState THEN hist.runEmitAt ELSE Null,
   mounted |-> IF mounted THEN [state |-> state, at |-> now] ELSE hist.mounted]

(***************************************************************************)
(* History of the latest step, for stating the properties.                 *)
(***************************************************************************)
QuietObs(kind, v) ==
  [kind |-> kind, video |-> v, at |-> 0, delta |-> 0, tracked |-> FALSE, evicted |-> 0,
   evaluated |-> FALSE, window |-> <<>>, windowMs |-> 0, state |-> "", confidence |-> F0,
   reported |-> 0, rewinds |-> 0, emitted |-> FALSE, cbCalled |-> FALSE, cbThrew |-> FALSE,
   postAttempted |-> FALSE, renderCalled |-> FALSE, renderThrew |-> FALSE,
   escaped |-> FALSE, prevEvalAt |-> Null, prevRunEmitAt |-> Null,
   pendingBefore |-> 0, mounted |-> FALSE, actions |-> <<>>, payload |-> NoInsight]

\* an event was tracked and the cooldown gate was closed
GatedObs(kind, v, evs) ==
  [QuietObs(kind, v) EXCEPT !.at = now, !.tracked = TRUE, !.window = evs,
                            !.evicted = Len(events) + 1 - Len(evs),
                            !.windowMs = getWindowMs]

\* an event was tracked and evaluated as ev; emitted: maybeEmit's gate was open
EvaluatedObs(kind, v, evs, ev, emitted, cb, rn) ==
  [kind |-> kind, video |-> v, at |-> now, delta |-> 0, tracked |-> TRUE,
   evicted |-> Len(events) + 1 - Len(evs), evaluated |-> TRUE,
   window |-> evs, windowMs |-> ev.insight.window_ms, state |-> ev.insight.state,
   confidence |-> ev.confidence, reported |-> ev.insight.confidence,
   rewinds |-> ev.insight.rewinds, emitted |-> emitted,
   cbCalled |-> emitted /\ config.onInsight,
   cbThrew |-> emitted /\ emitInsightThrows(cb),
   postAttempted |-> emitted /\ ~emitInsightThrows(cb) /\ config.apiEndpoint,
   renderCalled |-> emitted /\ ~emitInsightThrows(cb) /\ config.ui,
   renderThrew |-> emitted /\ ~emitInsightThrows(cb) /\ renderThrows(rn),
   escaped |-> emitted /\ (emitInsightThrows(cb) \/ renderThrows(rn)),
   prevEvalAt |-> hist.lastEvalAt,
   prevRunEmitAt |-> IF ev.insight.state = hist.runState THEN hist.runEmitAt ELSE Null,
   pendingBefore |-> Cardinality(timers), mounted |-> mounts(ev.insight, cb, rn),
   actions |-> <<>>, payload |-> NoInsight]

\* kind and v name the listener and the media element the call comes from
evaluateState(kind, v, evs) ==
  IF cooldownActive
  THEN /\ UNCHANGED <<lastInsightAt, lastEmittedState, lastEmittedAt, hist>>
       /\ UNCHANGED <<uiVars, fetches>>
       /\ obs' = GatedObs(kind, v, evs)
  ELSE \E ev \in {evaluation(evs)} :
       \E cb \in CallbackOutcomes(ev.insight) :
       \E rn \in RenderOutcomes(ev.insight, cb) :
         /\ maybeEmit(ev.insight, cb, rn)
         /\ lastInsightAt' = IF evaluationThrows(ev.insight, cb, rn) THEN lastInsightAt ELSE now
         /\ hist' = histAfter(ev.insight.state, emitDecision(ev.insight),
                              mounts(ev.insight, cb, rn))
         /\ obs' = EvaluatedObs(kind, v, evs, ev, emitDecision(ev.insight), cb, rn)

\* the window after events.push and cleanOldEvents
windowAfter(type, meta) ==
  cleanOldEvents(Append(events, [type |-> type, meta |-> meta, timestamp |-> now]))

trackEvent(kind, v, type, meta) ==
  \E evs \in {windowAfter(type, meta)} :
    /\ Len(evs) <= MaxEvents
    /\ events' = evs
    /\ evaluateState(kind, v, evs)

(***************************************************************************)
(* init and the listeners attachVideoListeners installs.  pos is the       *)
(* video.currentTime the handler reads.                                    *)
(***************************************************************************)
\* faulty variant: the missing media element is not detected
initUnchecked(v, userConfig) ==
  /\ inits < MaxInits
  /\ v \notin attached
  /\ inits' = inits + 1
  /\ config' = [videoElement |-> v, rules |-> MergeRules(DEFAULTS, userConfig.rules),
                onInsight |-> userConfig.onInsight, apiEndpoint |-> userConfig.apiEndpoint,
                ui |-> userConfig.ui, autoDismissMs |-> userConfig.autoDismissMs,
                onAction |-> userConfig.onAction, markup |-> userConfig.markup]
  /\ attached' = attached \cup {v}
  /\ UNCHANGED pauseStartedAt
  /\ obs' = QuietObs("init", v)
  /\ UNCHANGED <<envVars, engineVars, uiVars, fetches, hist, pureVars>>

init(v, userConfig) ==
  /\ inits < MaxInits
  /\ v \notin attached
  /\ inits' = inits + 1
  /\ config' = [videoElement |-> v, rules |-> MergeRules(DEFAULTS, userConfig.rules),
                onInsight |-> userConfig.onInsight, apiEndpoint |-> userConfig.apiEndpoint,
                ui |-> userConfig.ui, autoDismissMs |-> userConfig.autoDismissMs,
                onAction |-> userConfig.onAction, markup |-> userConfig.markup]
  /\ IF v = NoVideo
     THEN UNCHANGED <<attached, pauseStartedAt>>
     ELSE /\ attached' = attached \cup {v}
          /\ pauseStartedAt' = [pauseStartedAt EXCEPT ![v] = Null]
  /\ obs' = [QuietObs("init", v) EXCEPT !.escaped = (v = NoVideo)]
  /\ UNCHANGED <<envVars, engineVars, uiVars, fetches, hist, pureVars>>

timeupdate(v, pos) ==
  /\ v \in attached
  /\ lastStableTime' = pos
  /\ obs' = QuietObs("quiet", NoVideo)
  /\ UNCHANGED <<envVars, attached, pauseStartedAt, config, inits, events, seekFrom,
                 lastSeekRecordedAt, lastInsightAt, lastEmittedState, lastEmittedAt,
                 uiVars, fetches, hist, pureVars>>

seeking(v) ==
  /\ v \in attached
  /\ seekFrom' = IF seekFrom = Null THEN lastStableTime ELSE seekFrom
  /\ obs' = QuietObs("quiet", NoVideo)
  /\ UNCHANGED <<envVars, attached, pauseStartedAt, config, inits, events, lastStableTime,
                 lastSeekRecordedAt, lastInsightAt, lastEmittedState, lastEmittedAt,
                 uiVars, fetches, hist, pureVars>>

rewindMeta(fromTime, toTime) ==
  [fromTime |-> fromTime, toTime |-> toTime, delta |-> fromTime - toTime,
   segment |-> segmentFor(toTime, config.rules.segmentSizeSeconds)]

\* faulty variant: the debounce interval is taken in seconds
debouncedInSeconds == now - lastSeekRecordedAt < config.rules.seekDebounceMs \div 1000

\* line 73: the seek-end falls within the debounce interval of the last recorded rewind
debounced == now - lastSeekRecordedAt < config.rules.seekDebounceMs

seeked(v, pos) ==
  LET toTime == pos
      fromTime == IF seekFrom # Null THEN seekFrom ELSE lastStableTime
      delta == fromTime - toTime
  IN /\ v \in attached
     /\ seekFrom' = Null
     /\ UNCHANGED <<envVars, attached, pauseStartedAt, config, inits, lastStableTime, pureVars>>
     /\ IF debounced
        THEN /\ obs' = [QuietObs("seeked", v) EXCEPT !.at = now, !.state = "debounced",
                                                     !.delta = delta]
             /\ UNCHANGED <<events, lastSeekRecordedAt, lastInsightAt, lastEmittedState,
                            lastEmittedAt, uiVars, fetches, hist>>
        ELSE IF delta >= config.rules.minRewindSeconds
        THEN /\ lastSeekRecordedAt' = now
             /\ trackEvent("seeked", v, "rewind", rewindMeta(fromTime, toTime))
        ELSE /\ obs' = QuietObs("quiet", NoVideo)
             /\ UNCHANGED <<events, lastSeekRecordedAt, lastInsightAt, lastEmittedState,
                            lastEmittedAt, uiVars, fetches, hist>>

\* the meta of pause and pause_duration events ({ t }, { seconds, t }) is never
\* read by the engine and is left out
NoMeta == [t |-> Null]

pause(v) ==
  /\ v \in attached
  /\ pauseStartedAt' = [pauseStartedAt EXCEPT ![v] = now]
  /\ trackEvent("pause", v, "pause", NoMeta)
  /\ UNCHANGED <<envVars, attached, config, inits, lastStableTime, seekFrom,
                 lastSeekRecordedAt, pureVars>>

\* faulty variant: the pause stays active after a resume
playKeepsPause(v) ==
  LET dur == now - pauseStartedAt[v]
  IN /\ v \in attached
     /\ UNCHANGED <<envVars, attached, config, inits, lastStableTime, seekFrom,
                    lastSeekRecordedAt, pureVars, pauseStartedAt>>
     /\ IF pauseStartedAt[v] # Null /\ dur >= config.rules.minPauseSeconds * 100
        THEN trackEvent("play", v, "pause_duration", NoMeta)
        ELSE /\ obs' = QuietObs("quiet", NoVideo)
             /\ UNCHANGED <<events, lastInsightAt, lastEmittedState,
                            lastEmittedAt, uiVars, fetches, hist>>

play(v) ==
  LET dur == now - pauseStartedAt[v]
  IN /\ v \in attached
     /\ UNCHANGED <<envVars, attached, config, inits, lastStableTime, seekFrom,
                    lastSeekRecordedAt, pureVars>>
     /\ IF pauseStartedAt[v] = Null
        THEN /\ obs' = QuietObs("quiet", NoVideo)
             /\ UNCHANGED <<pauseStartedAt, events, lastInsightAt, lastEmittedState,
                            lastEmittedAt, uiVars, fetches, hist>>
        ELSE /\ pauseStartedAt' = [pauseStartedAt EXCEPT ![v] = Null]
             /\ IF dur >= config.rules.minPauseSeconds * 100
                THEN trackEvent("play", v, "pause_duration", NoMeta)
                ELSE /\ obs' = QuietObs("quiet", NoVideo)
                     /\ UNCHANGED <<events, lastInsightAt, lastEmittedState,
                                    lastEmittedAt, uiVars, fetches, hist>>

\* dismissUi, run while the timers of pending are pending
dismissUi(pending) ==
  IF ~uiRootEl
  THEN /\ timers' = pending
       /\ UNCHANGED <<uiRootEl, uiHtml, uiDismissTimer>>
  ELSE /\ timers' = {u \in pending : u.id # uiDismissTimer}
       /\ uiDismissTimer' = Null
       /\ uiHtml' = NoHtml
       /\ UNCHANGED uiRootEl

\* dismissUi("auto_dismiss"), run by the auto-dismiss timer t when it fires
autoDismiss(t) ==
  /\ t \in timers
  /\ now >= t.due
  /\ dismissUi(timers \ {t})
  /\ obs' = [QuietObs("dismiss", NoVideo) EXCEPT !.at = now,
                                                  !.pendingBefore = Cardinality(timers)]
  /\ UNCHANGED <<envVars, attached, pauseStartedAt, config, inits, engineVars, fetches,
                 hist, pureVars>>

\* the elements of the mounted markup that carry data-sciro, by action name
markedElements(markup) ==
  IF markup = "nested" THEN {"open", "dismiss"}
  ELSE IF markup = "flat" THEN {"dismiss"} ELSE {}

\* the click listeners a click on el reaches, target first: the event's path is
\* fixed when it is dispatched, so it still reaches the listeners of the marked
\* ancestors after the first listener has emptied the container
clickPath(markup, el) ==
  IF markup = "nested" /\ el = "dismiss" THEN <<"dismiss", "open">> ELSE <<el>>

\* a click on the marked element el of the mounted content: every listener on the
\* path runs dismissUi(action, insight) and then ui.onAction(action, insight)
click(el) ==
  /\ el \in markedElements(uiHtml.markup)
  /\ dismissUi(timers)
  /\ obs' = [QuietObs("click", NoVideo) EXCEPT
               !.at = now,
               !.pendingBefore = Cardinality(timers),
               !.actions = IF uiHtml.onAction THEN clickPath(uiHtml.markup, el) ELSE <<>>,
               !.payload = [state |-> uiHtml.state, at |-> uiHtml.at]]
  /\ UNCHANGED <<envVars, attached, pauseStartedAt, config, inits, engineVars, fetches,
                 hist, pureVars>>

\* the rest of sendInsightToApi, run when a pending fetch settles: a 2xx response
\* ("ok"), another response ("status") or a rejection ("error"); the failures are
\* logged with console.warn
fetchSettles(outcome) ==
  /\ fetches > 0
  /\ fetches' = fetches - 1
  /\ obs' = [QuietObs("settle", NoVideo) EXCEPT !.state = outcome]
  /\ UNCHANGED <<envVars, attached, pauseStartedAt, config, inits, engineVars, uiVars,
                 hist, pureVars>>

(***************************************************************************)
(* The environment: the clock advances to its next reading, a media        *)
(* element learns its duration.                                            *)
(***************************************************************************)
Tick(readings) ==
  /\ \E t \in readings : t > now
  /\ now' = CHOOSE t \in readings : t > now /\ \A u \in readings : u > now => t <= u
  /\ obs' = QuietObs("quiet", NoVideo)
  /\ UNCHANGED <<duration, attached, pauseStartedAt, config, inits, engineVars,
                 uiVars, fetches, hist, pureVars>>

durationchange(v, d) ==
  /\ duration[v] # d
  /\ duration' = [duration EXCEPT ![v] = d]
  /\ obs' = QuietObs("quiet", NoVideo)
  /\ UNCHANGED <<now, attached, pauseStartedAt, config, inits, engineVars, uiVars, fetches, hist,
                 pureVars>>

NoHeap == <<>>
NoClient == [config |-> Null, returned |-> {}, original |-> <<>>,
             last |-> [op |-> "", ref |-> Null, fresh |-> FALSE]]

NoArgs == [rewinds |-> 0, maxSegmentRewinds |-> 0, pauseNear |-> FALSE, rules |-> <<>>]
NoResult == [done |-> FALSE, confidence |-> F0, reported |-> 0, state |-> ""]

InitEngine ==
  /\ now = StartTime
  /\ duration = [v \in Videos |-> 0]
  /\ attached = {}
  /\ pauseStartedAt = [v \in Videos |-> Null]
  /\ config = [videoElement |-> NoVideo, rules |-> <<>>, onInsight |-> FALSE,
               apiEndpoint |-> FALSE, ui |-> FALSE, autoDismissMs |-> 15000,
               onAction |-> FALSE, markup |-> "flat"]
  /\ events = <<>>
  /\ lastStableTime = 0
  /\ seekFrom = Null
  /\ lastSeekRecordedAt = 0
  /\ lastInsightAt = 0
  /\ lastEmittedState = "null"
  /\ lastEmittedAt = 0
  /\ uiRootEl = FALSE
  /\ uiHtml = NoHtml
  /\ uiDismissTimer = Null
  /\ timers = {}
  /\ fetches = 0
  /\ inits = 0
  /\ hist = [lastEvalAt |-> Null, runState |-> "", runEmitAt |-> Null, mounted |-> NoInsight]
  /\ obs = QuietObs("quiet", NoVideo)
  /\ heap = NoHeap
  /\ client = NoClient

Init == InitEngine /\ args = NoArgs /\ result = NoResult

\* the steps of the engine under the inputs b: init is called with a videoElement
\* of b.sources and a configuration of b.configs, the media elements b.videos send
\* signals at the positions b.positions, the clock takes the readings b.readings
NextOn(b) ==
  \/ \E v \in b.sources, c \in b.configs : init(v, c)
  \/ \E v \in b.videos, pos \in b.positions : timeupdate(v, pos)
  \/ \E v \in b.videos : seeking(v)
  \/ \E v \in b.videos, pos \in b.positions : seeked(v, pos)
  \/ \E v \in b.videos : pause(v)
  \/ \E v \in b.videos : play(v)
  \/ \E t \in timers : autoDismiss(t)
  \/ \E el \in {"open", "dismiss"} : click(el)
  \/ \E outcome \in {"ok", "status", "error"} : fetchSettles(outcome)
  \/ Tick(b.readings)
  \/ \E v \in b.videos, d \in Durations : durationchange(v, d)

\* one engine on one media element
Next == NextOn([sources |-> {"v1"}, videos |-> {"v1"}, configs |-> UserConfigs,
                positions |-> Positions, readings |-> Readings(Offsets)])

Spec == Init /\ [][Next]_vars

\* the same engine with a clock that keeps advancing; no signal is ever bound to
\* arrive, and nothing else in the engine runs by itself
SpecClock == Spec /\ WF_vars(Tick(Readings(Offsets)))

\* init called on two media elements, with the default rules
ConfigsTwo == {
  [rules |-> <<>>,
   onInsight |-> TRUE, apiEndpoint |-> TRUE, ui |-> TRUE, autoDismissMs |-> 200,
   onAction |-> FALSE, markup |-> "flat"] }
NextTwo == NextOn([sources |-> Videos, videos |-> Videos, configs |-> ConfigsTwo,
                   positions |-> Positions, readings |-> Readings(OffsetsTwo)])

SpecTwo == Init /\ [][NextTwo]_vars

\* init called with a media element and without one
NextMissing == NextOn([sources |-> {"v1", NoVideo}, videos |-> {"v1"}, configs |-> ConfigsTwo,
                       positions |-> Positions, readings |-> Readings(OffsetsTwo)])

SpecMissing == Init /\ [][NextMissing]_vars

(***************************************************************************)
(* The engine of version 0.2.  Its module state is kept in the variables   *)
(* of the same names; lastRewindRecordedAt is kept in lastSeekRecordedAt   *)
(* and lastInsightTime in lastInsightAt.  Its timeupdate and seeking       *)
(* listeners are the same code as above.  No ui plugin and no apiEndpoint  *)
(* are configured, so sendInsightToApi and maybeRenderUI return at once.   *)
(* hist holds the times of all recorded rewinds and of the last emission.  *)
(***************************************************************************)
MaxEvents02 == 4      \* no rewind is tracked when the window would hold more
WINDOW_MS == 60000
MIN_REWIND_SECONDS == 25
SEEK_DEBOUNCE_MS == 500
COOLDOWN_MS == 12000
Offsets02 == {0, 250, 1000, 12000, 13000, 61000}
Configs02 == {[onInsight |-> TRUE], [onInsight |-> FALSE]}

\* faulty variant: three rewinds already give the highest confidence
confidenceFromRewindsEarly(rewinds) ==
  IF rewinds >= 3 THEN 92
  ELSE 84

\* the confidence, in hundredths
confidenceFromRewinds(rewinds) ==
  IF rewinds >= 4 THEN 92
  ELSE IF rewinds = 3 THEN 88
  ELSE 84

init02(v, userConfig) ==
  /\ inits < MaxInits
  /\ v \notin attached
  /\ inits' = inits + 1
  /\ config' = [videoElement |-> v, onInsight |-> userConfig.onInsight]
  /\ attached' = attached \cup {v}
  /\ obs' = QuietObs("init", v)
  /\ UNCHANGED <<envVars, pauseStartedAt, engineVars, uiVars, fetches, hist, pureVars>>

cleanOldEvents02(evs) ==
  LET cutoff == now - WINDOW_MS
  IN SelectSeq(evs, LAMBDA e : e.timestamp > cutoff)

\* a rewind was tracked; the window evs holds rewinds rewinds
TrackedObs02(v, evs, rewinds) ==
  [QuietObs("seeked", v) EXCEPT !.at = now, !.tracked = TRUE, !.window = evs,
                                !.rewinds = rewinds]

\* cb is what config.onInsight does when called: "returns" or "throws"
evaluateState02(v, evs, rewinds) ==
  IF now - lastInsightAt < COOLDOWN_MS
  THEN /\ UNCHANGED lastInsightAt
       /\ hist' = [hist EXCEPT !.recorded = @ \cup {now}]
       /\ obs' = TrackedObs02(v, evs, rewinds)
  ELSE IF rewinds >= 2
  THEN \E cb \in (IF config.onInsight THEN {"returns", "throws"} ELSE {"returns"}) :
         /\ lastInsightAt' = IF cb = "throws" THEN lastInsightAt ELSE now
         /\ hist' = [recorded |-> hist.recorded \cup {now}, lastEmitAt |-> now]
         /\ obs' = [TrackedObs02(v, evs, rewinds) EXCEPT
                      !.evaluated = TRUE, !.emitted = TRUE, !.state = "confused",
                      !.reported = confidenceFromRewinds(rewinds),
                      !.cbCalled = config.onInsight,
                      !.cbThrew = (cb = "throws"), !.escaped = (cb = "throws")]
  ELSE /\ UNCHANGED lastInsightAt
       /\ hist' = [hist EXCEPT !.recorded = @ \cup {now}]
       /\ obs' = [TrackedObs02(v, evs, rewinds) EXCEPT !.evaluated = TRUE]

trackEvent02(v, type, meta) ==
  \E evs \in {cleanOldEvents02(Append(events, [type |-> type, meta |-> meta,
                                                timestamp |-> now]))} :
    /\ Len(evs) <= MaxEvents02
    /\ events' = evs
    /\ evaluateState02(v, evs, Len(rewindEventsOf(evs)))

seeked02(v, pos) ==
  LET toTime == pos
      fromTime == IF seekFrom # Null THEN seekFrom ELSE lastStableTime
      delta == fromTime - toTime
  IN /\ v \in attached
     /\ seekFrom' = Null
     /\ UNCHANGED <<envVars, attached, pauseStartedAt, config, inits, lastStableTime,
                    lastEmittedState, lastEmittedAt, uiVars, fetches, pureVars>>
     /\ IF now - lastSeekRecordedAt < SEEK_DEBOUNCE_MS
        THEN /\ obs' = [QuietObs("seeked", v) EXCEPT !.at = now, !.state = "debounced",
                                                     !.delta = delta]
             /\ UNCHANGED <<events, lastSeekRecordedAt, lastInsightAt, hist>>
        ELSE IF delta >= MIN_REWIND_SECONDS
        THEN /\ lastSeekRecordedAt' = now
             /\ trackEvent02(v, "rewind",
                             [fromTime |-> fromTime, toTime |-> toTime, delta |-> delta])
        ELSE /\ obs' = QuietObs("quiet", NoVideo)
             /\ UNCHANGED <<events, lastSeekRecordedAt, lastInsightAt, hist>>

Init02 ==
  /\ now = StartTime
  /\ duration = [v \in Videos |-> 0]
  /\ attached = {}
  /\ pauseStartedAt = [v \in Videos |-> Null]
  /\ config = [videoElement |-> NoVideo, onInsight |-> FALSE]
  /\ events = <<>>
  /\ lastStableTime = 0
  /\ seekFrom = Null
  /\ lastSeekRecordedAt = 0
  /\ lastInsightAt = 0
  /\ lastEmittedState = "null"
  /\ lastEmittedAt = 0
  /\ uiRootEl = FALSE
  /\ uiHtml = NoHtml
  /\ uiDismissTimer = Null
  /\ timers = {}
  /\ fetches = 0
  /\ inits = 0
  /\ hist = [recorded |-> {}, lastEmitAt |-> Null]
  /\ obs = QuietObs("quiet", NoVideo)
  /\ heap = NoHeap
  /\ client = NoClient
  /\ args = NoArgs
  /\ result = NoResult

Next02 ==
  \/ \E c \in Configs02 : init02("v1", c)
  \/ \E pos \in Positions : timeupdate("v1", pos)
  \/ seeking("v1")
  \/ \E pos \in Positions : seeked02("v1", pos)
  \/ Tick(Readings(Offsets02))

Spec02 == Init02 /\ [][Next02]_vars

(***************************************************************************)
(* computeConfidence as a pure function: the arguments are drawn from      *)
(* bounded sets and the function is applied once.                          *)
(***************************************************************************)
MaxRewinds == 7       \* the largest rewindCount passed to computeConfidence

F055 == FRat(55, 100)
F095 == FRat(95, 100)

\* rules with the default weights, and with caller-supplied non-negative weights
RulesConfidence == {
  DEFAULTS,
  [DEFAULTS EXCEPT !.minRewinds = 1,
                   !.weights = [rewinds |-> 200, sameSegment |-> 35, pauseNearRewind |-> 20]],
  [DEFAULTS EXCEPT !.weights = [rewinds |-> 10, sameSegment |-> 10, pauseNearRewind |-> 80]],
  [DEFAULTS EXCEPT !.minRewinds = 3,
                   !.weights = [rewinds |-> 33, sameSegment |-> 33, pauseNearRewind |-> 34]] }

ConfidenceArgs ==
  {a \in [rewinds : 1..MaxRewinds, maxSegmentRewinds : 1..MaxRewinds,
          pauseNear : BOOLEAN, rules : RulesConfidence] :
     a.rewinds >= a.rules.minRewinds /\ a.maxSegmentRewinds <= a.rewinds}

confidenceOf(a) == computeConfidence(a.rewinds, a.maxSegmentRewinds, a.pauseNear, a.rules)

InitConfidence == InitEngine /\ args \in ConfidenceArgs /\ result = NoResult

applyComputeConfidence ==
  /\ ~result.done
  /\ \E c \in {confidenceOf(args)} :
       result' = [done |-> TRUE, confidence |-> c,
                  \* line 219: the payload's confidence; line 158: its state
                  reported |-> round2(c),
                  state |-> IF FGe(c, F075) THEN "confused" ELSE "struggling"]
  /\ UNCHANGED <<envVars, attached, pauseStartedAt, config, inits, engineVars, uiVars, fetches,
                 hist, obs, args, heap, client>>

SpecConfidence == InitConfidence /\ [][applyComputeConfidence]_vars

(***************************************************************************)
(* getWindowMs as a pure function of rules.windowMs and video.duration.    *)
(***************************************************************************)
WindowArgs == [windowMs : WindowSettings, duration : WindowDurations]

InitWindow == InitEngine /\ args \in WindowArgs /\ result = [done |-> FALSE, windowMs |-> 0]

applyGetWindowMs ==
  /\ ~result.done
  /\ result' = [done |-> TRUE,
                windowMs |-> getWindowMsOf([rules |-> [windowMs |-> args.windowMs]],
                                           args.duration)]
  /\ UNCHANGED <<envVars, attached, pauseStartedAt, config, inits, engineVars, uiVars, fetches,
                 hist, obs, args, heap, client>>

SpecWindow == InitWindow /\ [][applyGetWindowMs]_vars

(***************************************************************************)
(* The segment histogram of evaluateState (lines 141-144), applied to the  *)
(* rewinds of a window in their order of arrival.                          *)
(***************************************************************************)
MaxSegmentEvents == 4
\* the rewinds have segment ids 0, 2 and 10, as segmentFor yields them; as keys of
\* the histogram they are the strings "0", "2", "10"
SegmentArgs ==
  UNION {[1..n -> [type : {"rewind"}, meta : [segment : {0, 2, 10}], timestamp : {StartTime}]] :
           n \in 1..MaxSegmentEvents}

InitSegments ==
  /\ InitEngine
  /\ args \in SegmentArgs
  /\ result = [done |-> FALSE, maxSegmentRewinds |-> 0, dominantSegment |-> Null]

applySegmentCounts ==
  /\ ~result.done
  /\ \E segmentCounts \in {countBy(args)} :
       result' = [done |-> TRUE,
                  maxSegmentRewinds |-> MaxOf({segmentCounts[k] : k \in DOMAIN segmentCounts}),
                  dominantSegment |-> dominantSegmentOf(segmentCounts)]
  /\ UNCHANGED <<envVars, attached, pauseStartedAt, config, inits, engineVars, uiVars, fetches,
                 hist, obs, args, heap, client>>

SpecSegments == InitSegments /\ [][applySegmentCounts]_vars

(***************************************************************************)
(* init on the rules objects callers can supply: any subset of some rules, *)
(* with no weights, all of them, or only some of them.                     *)
(***************************************************************************)
SuppliedRules ==
  [windowMs |-> 8000, minRewinds |-> 3, cooldownMs |-> 200,
   emitOnlyOnStateChange |-> FALSE, segmentSizeSeconds |-> 100]
\* stands for a rules object without a weights entry
NoWeights == [supplied |-> FALSE]
SuppliedWeights ==
  {NoWeights,
   [rewinds |-> 50, sameSegment |-> 30, pauseNearRewind |-> 20],
   [rewinds |-> 60],
   [sameSegment |-> 30, pauseNearRewind |-> 10]}

\* the rules object that supplies the rules named in keys and the weights w
rulesWith(keys, w) ==
  [k \in keys \cup (IF w = NoWeights THEN {} ELSE {"weights"}) |->
     IF k = "weights" THEN w ELSE SuppliedRules[k]]

DefaultsArgs ==
  {[userConfig |-> [rules |-> rulesWith(keys, w), onInsight |-> FALSE, apiEndpoint |-> FALSE,
                    ui |-> FALSE, autoDismissMs |-> 0, onAction |-> FALSE, markup |-> "flat"]] :
     keys \in SUBSET (DOMAIN SuppliedRules), w \in SuppliedWeights}

InitDefaults == InitEngine /\ args \in DefaultsArgs /\ result = NoResult

NextDefaults == \E v \in {"v1"} : init(v, args.userConfig)

SpecDefaults == InitDefaults /\ [][NextDefaults]_vars

(***************************************************************************)
(* SciroClient: the constructor and getConfig, and a caller that writes to *)
(* the objects getConfig returned.  heap[0] is the headers object,         *)
(* heap[1] is this.config, heap[2], heap[3], ... are the returned objects. *)
(***************************************************************************)
MaxCalls == 2         \* getConfig is called at most this many times

\* the constructor's argument; "" and 0 stand for an entry that is left out
ClientConfigs ==
  [apiKey : {"", "key"}, baseUrl : {"", "https://example.test"}, timeout : {0, 5000},
   headers : {<<>>, [Accept |-> "text/plain"]}]

\* the configuration object o with its headers entry followed
deref(o) ==
  [apiKey |-> heap[o].apiKey, baseUrl |-> heap[o].baseUrl, timeout |-> heap[o].timeout,
   headers |-> heap[heap[o].headers]]

\* what the constructor stores for the argument cfg
storedConfig(cfg) ==
  [apiKey |-> cfg.apiKey,
   baseUrl |-> IF cfg.baseUrl = "" THEN "https://api.sciro.io" ELSE cfg.baseUrl,
   timeout |-> IF cfg.timeout = 0 THEN 30000 ELSE cfg.timeout,
   headers |-> 0]

construct(cfg) ==
  /\ client.config = Null
  /\ client.last.op = ""
  /\ IF cfg.apiKey = ""
     THEN /\ client' = [client EXCEPT !.last.op = "threw"]
          /\ UNCHANGED heap
     ELSE /\ heap' = (0 :> cfg.headers) @@ (1 :> storedConfig(cfg))
          /\ client' = [config |-> 1, returned |-> {},
                        original |-> [storedConfig(cfg) EXCEPT !.headers = cfg.headers],
                        last |-> [op |-> "new", ref |-> 1, fresh |-> TRUE]]
  /\ UNCHANGED <<envVars, attached, pauseStartedAt, config, inits, engineVars, uiVars, fetches,
                 hist, obs, args, result>>

\* return { ...this.config }: a new object with the entries of this.config
getConfig ==
  /\ client.config # Null
  /\ Cardinality(client.returned) < MaxCalls
  /\ \E n \in {Cardinality(DOMAIN heap)} :
       /\ heap' = heap @@ (n :> heap[client.config])
       /\ client' = [client EXCEPT !.returned = @ \cup {n},
                                   !.last = [op |-> "getConfig", ref |-> n,
                                             fresh |-> n \notin DOMAIN heap]]
  /\ UNCHANGED <<envVars, attached, pauseStartedAt, config, inits, engineVars, uiVars, fetches,
                 hist, obs, args, result>>

\* the caller assigns to an entry of a returned object: returned[field] = value
setEntry(o, field, value) ==
  /\ o \in client.returned
  /\ heap' = [heap EXCEPT ![o] = [k \in DOMAIN heap[o] |->
                                    IF k = field THEN value ELSE heap[o][k]]]
  /\ client' = [client EXCEPT !.last = [op |-> "setEntry", ref |-> o, fresh |-> FALSE]]
  /\ UNCHANGED <<envVars, attached, pauseStartedAt, config, inits, engineVars, uiVars, fetches,
                 hist, obs, args, result>>

\* the caller assigns to a header of a returned object: returned.headers[name] = value
setHeader(o, name, value) ==
  /\ o \in client.returned
  /\ \E h \in {heap[o].headers} :
       heap' = [heap EXCEPT ![h] = [k \in (DOMAIN heap[h]) \cup {name} |->
                                      IF k = name THEN value ELSE heap[h][k]]]
  /\ client' = [client EXCEPT !.last = [op |-> "setHeader", ref |-> o, fresh |-> FALSE]]
  /\ UNCHANGED <<envVars, attached, pauseStartedAt, config, inits, engineVars, uiVars, fetches,
                 hist, obs, args, result>>

NextClient ==
  \/ \E cfg \in ClientConfigs : construct(cfg)
  \/ getConfig
  \/ \E o \in client.returned, field \in {"apiKey", "baseUrl"} : setEntry(o, field, "changed")
  \/ \E o \in client.returned, name \in {"Accept", "X-Trace"} : setHeader(o, name, "changed")

SpecClient == Init /\ [][NextClient]_vars

(***************************************************************************)
(* Properties.                                                             *)
(***************************************************************************)
IsRewind(e) == e.type = "rewind"
RewindsIn(evs) == {i \in DOMAIN evs : IsRewind(evs[i])}

\* C1: every event of the window an evaluation uses has a timestamp no older than
\* the evaluation's time minus the window length recomputed at that time from the
\* current rules and media duration.
C1_EvictionInvariant ==
  obs.evaluated =>
    \A i \in DOMAIN obs.window : obs.window[i].timestamp >= obs.at - getWindowMs

\* an adaptive window whose media duration is known evicted an event at an evaluation
C1_Witness ==
  /\ obs.evaluated
  /\ obs.evicted > 0
  /\ obs.window # <<>>
  /\ config.rules.windowMs = Null
  /\ configuredDuration # 0

\* C2: rewinds in the window are at least seekDebounceMs apart: a seek-end within
\* seekDebounceMs of a recorded rewind records nothing, whatever its delta.
C2_DebounceInvariant ==
  \A i, j \in RewindsIn(events) :
    i < j => events[j].timestamp - events[i].timestamp >= config.rules.seekDebounceMs

\* a seek-end with a rewind-sized delta was discarded 250 ms after a recorded rewind,
\* and the window holds that one rewind
C2_Witness ==
  /\ obs.kind = "seeked"
  /\ obs.state = "debounced"
  /\ obs.delta >= config.rules.minRewindSeconds
  /\ now > lastSeekRecordedAt
  /\ Cardinality({i \in RewindsIn(events) : events[i].timestamp = lastSeekRecordedAt}) = 1
  /\ Cardinality(RewindsIn(events)) = 1

\* C3: an evaluation over a window with fewer than minRewinds rewinds yields state ok
\* and confidence exactly 0.25, whatever pauses the window holds.
C3_BelowMinRewindsIsOk ==
  (obs.evaluated /\ Cardinality(RewindsIn(obs.window)) < config.rules.minRewinds) =>
    /\ obs.state = "ok"
    /\ FCmp(obs.confidence, FRat(1, 4)) = 0
    /\ obs.reported = 25

\* one rewind and a pause in the window, minRewinds = 2, evaluated as ok
C3_Witness ==
  /\ obs.evaluated
  /\ obs.state = "ok"
  /\ config.rules.minRewinds = 2
  /\ Cardinality(RewindsIn(obs.window)) = 1
  /\ \E i \in DOMAIN obs.window : obs.window[i].type \in {"pause", "pause_duration"}

\* C4: with the default weights the confidence computeConfidence returns lies in
\* the closed interval [0.55, 0.95].
C4_ConfidenceInRange ==
  (result.done /\ args.rules.weights = DEFAULTS.weights) =>
    /\ FGe(result.confidence, F055)
    /\ FGe(F095, result.confidence)

\* the argument records that differ from a in one argument, raised
Raised(a) ==
  {[a EXCEPT !.rewinds = a.rewinds + 1]}
    \cup (IF a.maxSegmentRewinds < a.rewinds
          THEN {[a EXCEPT !.maxSegmentRewinds = a.maxSegmentRewinds + 1]} ELSE {})
    \cup (IF a.pauseNear THEN {} ELSE {[a EXCEPT !.pauseNear = TRUE]})

\* C5: for rewindCount >= minRewinds the confidence does not decrease when
\* rewindCount, maxSegmentRewinds or pauseNear is raised and the other two are kept.
C5_ConfidenceMonotone ==
  result.done => \A b \in Raised(args) : FGe(confidenceOf(b), result.confidence)

\* the confidence was computed for arguments where raising each of the three
\* arguments raises it strictly
C5_Witness ==
  /\ result.done
  /\ args.rewinds = 3
  /\ args.maxSegmentRewinds = 2
  /\ ~args.pauseNear
  /\ \A b \in Raised(args) : FCmp(confidenceOf(b), result.confidence) > 0

\* C6: with emitOnlyOnStateChange, two emissions in one run of evaluations that
\* yield the same state are at least emitStateRefreshMs apart.
C6_EmissionThrottled ==
  (obs.emitted /\ config.rules.emitOnlyOnStateChange /\ obs.prevRunEmitAt # Null) =>
    obs.at - obs.prevRunEmitAt >= config.rules.emitStateRefreshMs

\* an unchanged state was emitted again, as a refresh
C6_Witness ==
  /\ obs.emitted
  /\ config.rules.emitOnlyOnStateChange
  /\ obs.prevRunEmitAt # Null
  /\ obs.at - obs.prevRunEmitAt = config.rules.emitStateRefreshMs

\* C7: two evaluations that pass the cooldown gate are at least cooldownMs apart.
C7_CooldownBetweenEvaluations ==
  (obs.evaluated /\ obs.prevEvalAt # Null) =>
    obs.at - obs.prevEvalAt >= config.rules.cooldownMs

\* C8: an exception of onInsight or ui.render does not leave the signal handler,
\* and the evaluation becomes the cooldown reference all the same.
C8_IntegratorExceptionsCaught ==
  (obs.cbThrew \/ obs.renderThrew) => (~obs.escaped /\ lastInsightAt = obs.at)

\* C9: every emission attempts each configured delivery: the callback, the POST
\* and the UI render.
C9_DeliveriesIndependent ==
  obs.emitted =>
    /\ obs.cbCalled = config.onInsight
    /\ obs.postAttempted = config.apiEndpoint
    /\ obs.renderCalled = config.ui

\* C10: once two engines are initialised, a signal of the media element that is not
\* the configured one leaves the window, the debounce and cooldown timestamps, the
\* last emitted state and the configuration unchanged.
C10_InstanceIsolation ==
  [][(/\ attached = Videos
      /\ obs'.video \in Videos
      /\ obs'.video # config.videoElement
      /\ obs'.kind # "init")
     => UNCHANGED <<events, lastSeekRecordedAt, lastInsightAt, lastEmittedState,
                    lastEmittedAt, config>>]_vars

\* C11: init without a media element throws; it attaches no listener, and while no
\* init has succeeded no event is tracked, evaluated or emitted.
C11_InitWithoutVideoFails ==
  /\ NoVideo \notin attached
  /\ (obs.kind = "init" /\ obs.video = NoVideo) => obs.escaped
  /\ attached = {} =>
       /\ events = <<>>
       /\ ~obs.tracked
       /\ lastEmittedState = "null"
       /\ lastInsightAt = 0
       /\ uiHtml = NoHtml
       /\ timers = {}

\* init has been called twice without a media element and time has passed
C11_Witness ==
  /\ inits = 2
  /\ attached = {}
  /\ now > StartTime
  /\ config.videoElement = NoVideo

\* C12: at most one auto-dismiss timer is pending: a render that mounts content
\* with a positive autoDismissMs leaves exactly the timer it armed, and a click or
\* the expiry of the timer leaves none.
C12_SingleDismissTimer ==
  /\ Cardinality(timers) <= 1
  /\ (obs.mounted /\ config.autoDismissMs > 0) =>
       timers = {[id |-> uiDismissTimer, due |-> obs.at + config.autoDismissMs]}
  /\ obs.kind \in {"click", "dismiss"} => (timers = {} /\ uiDismissTimer = Null)

\* a render mounted content while the timer of an earlier render was pending
C12_Witness ==
  /\ obs.mounted
  /\ obs.pendingBefore = 1
  /\ Cardinality(timers) = 1
  /\ \A t \in timers : t.due = now + config.autoDismissMs

\* C15: a click on a marked element of the mounted content empties the container,
\* cancels the auto-dismiss timer and calls onAction exactly once, with the
\* element's action name and the insight whose render produced the element.
C15_ClickProtocol ==
  obs.kind = "click" =>
    /\ uiHtml = NoHtml
    /\ timers = {}
    /\ uiDismissTimer = Null
    /\ obs.payload = hist.mounted
    /\ config.onAction => (Len(obs.actions) = 1 /\ obs.actions[1] \in {"open", "dismiss"})

\* C13: the window length is the configured windowMs when that is a number;
\* otherwise 60000 ms when the duration is unknown, zero or not finite; otherwise
\* duration x 0.08 x 1000 rounded to a whole millisecond and clamped to
\* [30000, 120000].
C13_WindowLength ==
  result.done =>
    IF args.windowMs # Null THEN result.windowMs = args.windowMs
    ELSE IF args.duration \in {0, InfiniteDuration} THEN result.windowMs = 60000
    ELSE /\ result.windowMs \in 30000..120000
         /\ 80 * args.duration <= 30000 * DurationUnit => result.windowMs = 30000
         /\ 80 * args.duration >= 120000 * DurationUnit => result.windowMs = 120000
         /\ (/\ 80 * args.duration > 30000 * DurationUnit
             /\ 80 * args.duration < 120000 * DurationUnit) =>
              /\ 2 * (DurationUnit * result.windowMs - 80 * args.duration) <= DurationUnit
              /\ 2 * (80 * args.duration - DurationUnit * result.windowMs) <= DurationUnit

\* an adaptive window strictly inside the clamp, rounded from a half millisecond
C13_Witness ==
  /\ result.done
  /\ args.windowMs = Null
  /\ args.duration = 400 * DurationUnit + 5
  /\ result.windowMs \in {32012, 32013}

\* C14: an emission makes exactly one POST attempt when apiEndpoint is configured
\* and none when it is not; no other step makes one; a settled attempt, failed or
\* not, is not retried, changes nothing of the engine and raises nothing.
C14_WebhookDelivery ==
  [][/\ obs'.emitted => fetches' = fetches + (IF config.apiEndpoint THEN 1 ELSE 0)
     /\ (~obs'.emitted /\ obs'.kind # "settle") => fetches' = fetches
     /\ obs'.kind = "settle" =>
          /\ fetches' = fetches - 1
          /\ ~obs'.escaped
          /\ UNCHANGED <<config, engineVars, uiVars, hist>>]_vars

\* C16: after init every rule the caller did not supply has its default, and so
\* has every weight the caller did not supply, also when some weights are supplied.
C16_DefaultsMerged ==
  attached # {} =>
    /\ \A k \in DOMAIN DEFAULTS \ {"weights"} :
         /\ k \in DOMAIN config.rules
         /\ config.rules[k] = IF k \in DOMAIN args.userConfig.rules
                              THEN args.userConfig.rules[k] ELSE DEFAULTS[k]
    /\ "weights" \in DOMAIN config.rules
    /\ \A w \in DOMAIN DEFAULTS.weights :
         /\ w \in DOMAIN config.rules.weights
         /\ config.rules.weights[w] =
              IF /\ "weights" \in DOMAIN args.userConfig.rules
                 /\ w \in DOMAIN args.userConfig.rules.weights
              THEN args.userConfig.rules.weights[w] ELSE DEFAULTS.weights[w]

\* five rewinds, four of them in one segment, a pause near the last one, default rules
ScenarioC == [rewinds |-> 5, maxSegmentRewinds |-> 4, pauseNear |-> TRUE, rules |-> DEFAULTS]

\* C17 as stated: scenario C yields rewindScore 0.75, segmentScore 1, pauseScore 1,
\* confidence 0.905, a payload confidence of 0.90 and state confused.
C17_ScenarioC_Original ==
  (result.done /\ args = ScenarioC) =>
    /\ FCmp(rewindScoreOf(args.rewinds, args.rules), FRat(75, 100)) = 0
    /\ FCmp(segmentScoreOf(args.maxSegmentRewinds), F1) = 0
    /\ FCmp(pauseScoreOf(args.pauseNear), F1) = 0
    /\ FCmp(result.confidence, FRat(905, 1000)) = 0
    /\ result.reported = 90
    /\ result.state = "confused"

\* C17: scenario C yields rewindScore 0.75, segmentScore 1, pauseScore 1,
\* confidence 0.905, a payload confidence of 0.91 (Math.round rounds the half up)
\* and state confused.
C17_ScenarioC ==
  (result.done /\ args = ScenarioC) =>
    /\ FCmp(rewindScoreOf(args.rewinds, args.rules), FRat(75, 100)) = 0
    /\ FCmp(segmentScoreOf(args.maxSegmentRewinds), F1) = 0
    /\ FCmp(pauseScoreOf(args.pauseNear), F1) = 0
    /\ FCmp(result.confidence, FRat(905, 1000)) = 0
    /\ result.reported = 91
    /\ result.state = "confused"

\* computeConfidence has been applied to scenario C
C17_Witness == result.done /\ args = ScenarioC /\ result.reported > 0

\* the recorded rewinds that are less than 60 seconds old
RewindsWithin60s == Cardinality({t \in hist.recorded : t > now - 60000})

\* C18: in version 0.2 a recorded rewind that is the second or a later one within 60
\* seconds, with no insight emitted in the 12 seconds before it, emits an insight of
\* state confused with confidence 0.84 for 2 rewinds within the 60 seconds, 0.88 for
\* 3 and 0.92 for 4 or more; with fewer than 2 rewinds nothing is emitted.
C18_RewindsEmitConfused ==
  [][obs'.tracked =>
       /\ obs'.rewinds = RewindsWithin60s'
       /\ RewindsWithin60s' < 2 => ~obs'.emitted
       /\ (/\ RewindsWithin60s' >= 2
           /\ (hist.lastEmitAt = Null \/ now - hist.lastEmitAt >= 12000)) => obs'.emitted
       /\ obs'.emitted =>
            /\ obs'.state = "confused"
            /\ obs'.reported = IF RewindsWithin60s' = 2 THEN 84
                               ELSE IF RewindsWithin60s' = 3 THEN 88 ELSE 92]_vars

\* an insight of confidence 0.88 was emitted at the third recorded rewind
C18_Witness ==
  /\ obs.emitted
  /\ obs.rewinds = 3
  /\ obs.reported = 88
  /\ Cardinality(hist.recorded) = 3

\* C19: in version 0.2 two emitted insights are at least 12 seconds apart, and a
\* tracked rewind that emits nothing leaves the cooldown reference as it was.
C19_CooldownBetweenInsights ==
  [][/\ (obs'.emitted /\ hist.lastEmitAt # Null) => now - hist.lastEmitAt >= 12000
     /\ (obs'.tracked /\ ~obs'.emitted) => lastInsightAt' = lastInsightAt]_vars

\* C20: getConfig returns a new object equal to the configuration as constructed,
\* and no write through a returned object, to one of its entries or to one of its
\* headers, changes the configuration the client holds.
C20_GetConfigReturnsCopy ==
  client.config # Null =>
    /\ deref(client.config) = client.original
    /\ client.last.op = "getConfig" =>
         /\ client.last.fresh
         /\ deref(client.last.ref) = client.original

\* C21: an evaluation's result is emitted if and only if emitOnlyOnStateChange is
\* off, or its state differs from lastEmittedState, or emitStateRefreshMs have
\* passed since lastEmittedAt; an emission sets lastEmittedState and lastEmittedAt
\* to that state and time whatever the deliveries do, and no other step changes
\* either, so lastEmittedState is the state of the latest emitted payload.
C21_ChangeRefreshGate ==
  [][/\ obs'.evaluated =>
          (obs'.emitted <=> \/ ~config.rules.emitOnlyOnStateChange
                            \/ obs'.state # lastEmittedState
                            \/ now - lastEmittedAt >= config.rules.emitStateRefreshMs)
     /\ (obs'.evaluated /\ obs'.emitted) =>
          (lastEmittedState' = obs'.state /\ lastEmittedAt' = now)
     /\ ~(obs'.evaluated /\ obs'.emitted) =>
          UNCHANGED <<lastEmittedState, lastEmittedAt>>]_vars

\* an unchanged state is emitted again once the refresh interval has passed, after
\* an evaluation of the same state was suppressed
C21_Witness ==
  /\ obs.evaluated
  /\ obs.emitted
  /\ config.rules.emitOnlyOnStateChange
  /\ obs.prevRunEmitAt # Null
  /\ obs.prevEvalAt > obs.prevRunEmitAt
  /\ lastEmittedState = obs.state
  /\ lastEmittedAt = obs.at

\* C22: a seek-end records a rewind if and only if it is not debounced and
\* fromTime - currentTime >= minRewindSeconds, where fromTime is the position kept
\* since the first seek-start of the gesture, or lastStableTime when there was none;
\* the rewind's segment is floor(toTime / size) with size at least 5 seconds; every
\* seek-end clears the kept position, and lastSeekRecordedAt changes only when a
\* rewind is recorded.
C22_RewindClassification ==
  [][/\ \A v \in Videos, pos \in Positions :
          seeked(v, pos) =>
            LET fromTime == IF seekFrom # Null THEN seekFrom ELSE lastStableTime
                wanted == config.rules.segmentSizeSeconds
                size == IF wanted < 50 THEN 50 ELSE wanted
                rewind == [type |-> "rewind",
                           meta |-> [fromTime |-> fromTime, toTime |-> pos,
                                     delta |-> fromTime - pos, segment |-> pos \div size],
                           timestamp |-> now]
            IN /\ seekFrom' = Null
               /\ IF /\ now - lastSeekRecordedAt >= config.rules.seekDebounceMs
                     /\ fromTime - pos >= config.rules.minRewindSeconds
                  THEN /\ events' # events
                       /\ events'[Len(events')] = rewind
                       /\ lastSeekRecordedAt' = now
                  ELSE UNCHANGED <<events, lastSeekRecordedAt>>
     /\ (seekFrom' # Null /\ seekFrom' # seekFrom) =>
          (seekFrom = Null /\ seekFrom' = lastStableTime)
     /\ lastSeekRecordedAt' # lastSeekRecordedAt =>
          /\ obs'.kind = "seeked"
          /\ obs'.tracked
          /\ events'[Len(events')].type = "rewind"
          /\ events'[Len(events')].timestamp = lastSeekRecordedAt']_vars

\* a rewind to 5.0 s is recorded under a configured segment size of 2 s: its
\* segment is 1, and the kept seek-start position is cleared
C22_Witness ==
  /\ obs.kind = "seeked"
  /\ obs.tracked
  /\ config.rules.segmentSizeSeconds = 20
  /\ events[Len(events)].type = "rewind"
  /\ events[Len(events)].meta.toTime = 50
  /\ events[Len(events)].meta.segment = 1
  /\ seekFrom = Null
  /\ lastSeekRecordedAt = now

\* C23: lastStableTime changes only in a timeupdate step, and not in one that
\* arrives while a seek is active (after a seek-start, before its seek-end);
\* seeking, seeked, pause and play leave it unchanged.
C23_StableTimeFrame ==
  [][lastStableTime' # lastStableTime =>
       /\ \E v \in Videos, pos \in Positions : timeupdate(v, pos)
       /\ seekFrom = Null]_vars

\* C24: a play step inserts a pause_duration event if and only if a pause is
\* active on that element and has lasted at least minPauseSeconds; every play step
\* leaves no pause active, so a second resume, or a resume without a pause,
\* inserts nothing; no other step inserts a pause_duration event.
C24_PauseDuration ==
  [][/\ \A v \in Videos :
          play(v) =>
            /\ pauseStartedAt'[v] = Null
            /\ IF /\ pauseStartedAt[v] # Null
                  /\ now - pauseStartedAt[v] >= config.rules.minPauseSeconds * 100
               THEN /\ events' # events
                    /\ events'[Len(events')].type = "pause_duration"
                    /\ events'[Len(events')].timestamp = now
               ELSE events' = events
     /\ (obs'.tracked /\ events'[Len(events')].type = "pause_duration") =>
          /\ obs'.kind = "play"
          /\ pauseStartedAt[obs'.video] # Null
          /\ pauseStartedAt'[obs'.video] = Null]_vars

\* a pause of 8 s has ended: its pause_duration event is the newest of the window
\* and no pause is active
C24_Witness ==
  /\ obs.kind = "play"
  /\ obs.tracked
  /\ events[Len(events)].type = "pause_duration"
  /\ pauseStartedAt[obs.video] = Null
  /\ \E i \in DOMAIN events : events[i].type = "pause" /\ events[i].timestamp <= now - 1000

\* C25: in an evaluation with enough rewinds, pause_near_rewind is true if and only
\* if the window holds a pause or pause_duration event stamped no earlier than the
\* most recent rewind and no later than pauseNearRewindSeconds after it.
C25_PauseNearRewind ==
  (obs.evaluated /\ obs.rewinds >= config.rules.minRewinds) =>
    LET w == obs.window
        lastRewindTimestamp == MaxOf({w[i].timestamp : i \in RewindsIn(w)})
    IN evaluation(w).insight.extra.pause_near_rewind
         <=> \E i \in DOMAIN w :
               /\ w[i].type \in {"pause", "pause_duration"}
               /\ w[i].timestamp >= lastRewindTimestamp
               /\ w[i].timestamp
                    <= lastRewindTimestamp + config.rules.pauseNearRewindSeconds * 1000

\* an evaluation finds a pause stamped 250 ms after the most recent rewind
C25_Witness ==
  /\ obs.evaluated
  /\ obs.rewinds >= config.rules.minRewinds
  /\ evaluation(obs.window).insight.extra.pause_near_rewind
  /\ \E i \in DOMAIN obs.window, j \in RewindsIn(obs.window) :
       /\ obs.window[i].type = "pause"
       /\ obs.window[i].timestamp = obs.window[j].timestamp + 250
       /\ \A r \in RewindsIn(obs.window) : r <= j

C27_EmptyRenderSkipped ==
  [][(obs'.renderCalled /\ ~obs'.renderThrew /\ ~obs'.mounted) =>
       UNCHANGED <<uiHtml, uiDismissTimer, timers>>]_vars

\* render returned empty output for a changed state while the content of an
\* earlier insight was mounted and its auto-dismiss timer pending
C27_Witness ==
  /\ obs.renderCalled
  /\ ~obs.renderThrew
  /\ ~obs.mounted
  /\ uiHtml # NoHtml
  /\ uiHtml.state # obs.state
  /\ uiDismissTimer # Null
  /\ \E t \in timers : t.id = uiDismissTimer /\ t.due > now

\* C28: a payload built for rewinds >= minRewinds has state confused if and only if
\* the confidence it reports, rounded to two decimals, is at least 0.75, and state
\* struggling if and only if that confidence is below 0.75.
C28_StateMatchesReported ==
  result.done =>
    /\ result.state \in {"confused", "struggling"}
    /\ result.state = "confused" <=> result.reported >= 75

\* C30: an init call that fails for want of a media element, made after a
\* successful init, leaves the configuration with its rules, the window and the
\* emission bookkeeping of the running engine as they were.
C30_FailedInitChangesNothing ==
  [][(obs'.kind = "init" /\ obs'.escaped /\ attached # {}) =>
       UNCHANGED <<config, attached, pauseStartedAt, engineVars, uiVars>>]_vars

\* C29: when a recorded rewind brings the rewinds of the window to minRewinds or
\* more, an insight with state struggling or confused is emitted, then or later,
\* whatever signals follow and however recent the previous evaluation is.  Only
\* rewinds after which the clock runs on for at least cooldownMs are considered.
C29_RewindsLeadToInsight ==
  (/\ obs.kind = "seeked"
   /\ obs.tracked
   /\ Cardinality(RewindsIn(obs.window)) >= config.rules.minRewinds
   /\ \E r \in Readings(Offsets) : r >= now + config.rules.cooldownMs)
    ~> (lastEmittedState \in {"struggling", "confused"})

\* C31: the window is a contiguous suffix of the events tracked so far, in
\* non-decreasing timestamp order: a step that changes it drops some of its oldest
\* events and appends the event tracked now, and changes no event it keeps, so an
\* evicted event does not come back when the window length grows.
C31_WindowIsSuffix ==
  [][/\ \A i, j \in DOMAIN events' : i <= j => events'[i].timestamp <= events'[j].timestamp
     /\ events' # events =>
          /\ obs'.tracked
          /\ \/ events' = <<>>
             \/ /\ events'[Len(events')].timestamp = now
                /\ Len(events') <= Len(events) + 1
                /\ SubSeq(events', 1, Len(events') - 1)
                     = SubSeq(events, Len(events) - Len(events') + 2, Len(events))]_vars

\* a tracked event evicted the oldest event of the window and joined a younger
\* one that stays
C31_Witness ==
  /\ obs.tracked
  /\ obs.evicted > 0
  /\ events = obs.window
  /\ Len(events) >= 2
  /\ events[1].timestamp < now
  /\ events[Len(events)].timestamp = now
====
